---- MODULE Spec2Model ----
(***************************************************************************)
(* Registration bot (src/main.py): the participant store (SQLite table     *)
(* `participants` with AUTOINCREMENT id and UNIQUE telegram_id / phone),   *)
(* the per-caller FSM context (state + data), and every handler that       *)
(* main() registers on the dispatcher.                                     *)
(*                                                                         *)
(* Texts are sequences of tokens.  A token is one character (" ", "a",     *)
(* "b"), a block of characters of a known width ("w48"), or a whole        *)
(* button label / command word / date word that the code only ever         *)
(* compares as a unit.                                                     *)
(*                                                                         *)
(* A caller is one chat with the bot: it has its own FSM context.  The     *)
(* handlers of different callers interleave at their store operations      *)
(* (every store operation is its own connection and transaction); the      *)
(* events of one caller are handled one after the other.                   *)
(*                                                                         *)
(* The events the callers send are bounded by a scenario, fixed at the     *)
(* start: who takes part, and which texts and contacts each one sends.     *)
(***************************************************************************)
EXTENDS Integers, Sequences, FiniteSets, TLC

\* ------------------------------------------------------------------ bounds
MaxNow == 2
TicksPerDay == 2

Callers == {1, 2, 3}

\* ADMIN_IDS = {922603146, 123456789}: caller 1 stands for an id of the set,
\* every other caller for an id outside it.
ADMIN_IDS == {1}

\* --------------------------------------------------------- button labels
BtnStart == "Start"                 \* "🚀 Старт"
BtnAgree == "Agree"                 \* "✅ Согласен"
BtnDisagree == "Disagree"           \* "❌ Не согласен"
BtnList == "AdminList"              \* "📋 Список"
BtnExport == "AdminExport"          \* "📤 Экспорт"
BtnExportToday == "AdminExportToday" \* "📤 Экспорт сегодня"
BtnReset == "AdminReset"            \* "🧹 Ресет базы"
BtnClose == "AdminClose"            \* "⬅️ Закрыть меню"
BtnYesWipe == "YesWipe"             \* "✅ Да, стереть всё"
BtnCancel == "Cancel"               \* "❌ Отмена"
BtnToday == "FilterToday"           \* "Сегодня"
BtnAll == "FilterAll"               \* "Все"
BtnRange == "FilterRange"           \* "Диапазон дат"
BtnBack == "Back"                   \* "⬅️ Назад"

\* ------------------------------------------------------------ FSM states
NoState == "none"
Reg_waiting_consent == "Reg:waiting_consent"
Reg_waiting_phone == "Reg:waiting_phone"
Reg_waiting_first_name == "Reg:waiting_first_name"
Reg_waiting_last_name == "Reg:waiting_last_name"
AdminFSM_reset_wait_password == "AdminFSM:reset_wait_password"
AdminFSM_reset_confirm == "AdminFSM:reset_confirm"
AdminFSM_export_wait_from == "AdminFSM:export_wait_from"
AdminFSM_export_wait_to == "AdminFSM:export_wait_to"
AdminFSM_list_wait_from == "AdminFSM:list_wait_from"
AdminFSM_list_wait_to == "AdminFSM:list_wait_to"

RegStates ==
  {Reg_waiting_consent, Reg_waiting_phone, Reg_waiting_first_name, Reg_waiting_last_name}

AdminStates ==
  {AdminFSM_reset_wait_password, AdminFSM_reset_confirm, AdminFSM_export_wait_from,
   AdminFSM_export_wait_to, AdminFSM_list_wait_from, AdminFSM_list_wait_to}

\* ------------------------------------------------------------ text helpers
\* The number of characters a token stands for.
TokLen(tok) ==
  CASE tok = "w48" -> 48
    [] tok \in {" ", "a", "b"} -> 1
    [] tok \in {"D0", "D1"} -> 10
    [] OTHER -> 5

RECURSIVE TextLen(_)
TextLen(s) == IF s = <<>> THEN 0 ELSE TokLen(Head(s)) + TextLen(Tail(s))

RECURSIVE LStrip(_)
LStrip(s) == IF s # <<>> /\ Head(s) = " " THEN LStrip(Tail(s)) ELSE s

RECURSIVE RStrip(_)
RStrip(s) ==
  IF s # <<>> /\ s[Len(s)] = " " THEN RStrip(SubSeq(s, 1, Len(s) - 1)) ELSE s

\* str.strip()
Strip(s) == RStrip(LStrip(s))

\* str.split(): the maximal runs of non-space tokens
RECURSIVE Split(_)
Split(s) ==
  LET t == LStrip(s)
      RECURSIVE Word(_)
      Word(u) == IF u = <<>> \/ Head(u) = " " THEN <<>> ELSE <<Head(u)>> \o Word(Tail(u))
  IN IF t = <<>> THEN <<>>
     ELSE LET w == Word(t) IN <<w>> \o Split(SubSeq(t, Len(w) + 1, Len(t)))

\* str.lower(): only the filter word has an upper-case spelling here
Lower(s) == [i \in 1..Len(s) |-> IF s[i] = "TODAY" THEN "today" ELSE s[i]]

\* normalize_phone: strip, then drop every space
normalize_phone(phone) == SelectSeq(Strip(phone), LAMBDA tok : tok # " ")

is_admin(user_id) == user_id \in ADMIN_IDS


\* ------------------------------------------------------------ dates, times
\* A calendar date is a day number.  "D0", "D1" are the ISO spellings of days
\* 0 and 1; "d0" is a second spelling of day 0 that strptime accepts
\* (e.g. 2026-2-1) and date.isoformat() never produces.
NoDate == -1

\* parse_ymd: datetime.strptime(s.strip(), "%Y-%m-%d").date(), None on error
parse_ymd(s) ==
  LET t == Strip(s)
  IN IF Len(t) # 1 THEN NoDate
     ELSE CASE t[1] \in {"D0", "d0"} -> 0
            [] t[1] = "D1" -> 1
            [] OTHER -> NoDate

\* date.isoformat()
date_isoformat(d) == IF d = 0 THEN "D0" ELSE "D1"

\* datetime.isoformat() of an instant: the day, then the time of day; two
\* such strings compare as the pairs do.
NoIso == <<>>
IsoOfTick(t) == <<t \div TicksPerDay, t % TicksPerDay>>
IsoMidnight(d) == <<d, 0>>
IsoLess(a, b) == a[1] < b[1] \/ (a[1] = b[1] /\ a[2] < b[2])
IsoGeq(a, b) == ~IsoLess(a, b)

\* day_range_utc(d): (start.isoformat(), (start + 1 day).isoformat())
day_range_utc(d) == <<IsoMidnight(d), IsoMidnight(d + 1)>>

NoErr == "ok"
ErrBadDate == "bad_date_format"
ErrBadArgs == "bad_arguments"

\* range_from_args(args_text) at clock tick t: <<from_iso, to_iso, error>>
range_from_args(args_text, t) ==
  LET a == Strip(args_text)
      parts == Split(a)
  IN IF a = <<>> THEN <<NoIso, NoIso, NoErr>>
     ELSE IF Lower(a) = <<"today">>
          THEN LET r == day_range_utc(t \div TicksPerDay) IN <<r[1], r[2], NoErr>>
     ELSE IF Len(parts) = 2
          THEN LET d1 == parse_ymd(parts[1])
                   d2 == parse_ymd(parts[2])
               IN IF d1 = NoDate \/ d2 = NoDate
                  THEN <<NoIso, NoIso, ErrBadDate>>
                  ELSE <<IsoMidnight(d1), IsoMidnight(d2 + 1), NoErr>>
     ELSE <<NoIso, NoIso, ErrBadArgs>>

\* ------------------------------------------------------------------ state
VARIABLES
  participants,      \* the rows of table participants
  sqlite_sequence,   \* the AUTOINCREMENT high-water mark (0: no row in sqlite_sequence)
  RESET_PASSWORD,    \* os.getenv("RESET_PASSWORD", ""), fixed at start
  now,               \* the clock, in ticks
  fsm_state,         \* per caller: FSMContext state
  fsm_data,          \* per caller: FSMContext data
  pc,                \* per caller: "idle" or the store operation its handler is about to make
  local,             \* per caller: the local variables of the handler in flight
  turn,              \* the latest handler step: who ran which handler, and its answer
  message,           \* the message that step began to handle (Continued: the step
                     \* went on with a handler begun before)
  pw_ok,             \* per caller: the password step accepted the password since the
                     \* caller's state was last cleared
  scen               \* the scenario that bounds the events, fixed at start

vars ==
  <<participants, sqlite_sequence, RESET_PASSWORD, now, fsm_state, fsm_data, pc, local,
    turn, message, pw_ok, scen>>

store == <<participants, sqlite_sequence>>

\* message.from_user.id of the events of caller c.  In scenario "two_chats"
\* callers 2 and 3 are two chats of user 2; everywhere else every caller is
\* a user of its own.
from_user_id(c) == IF scen = "two_chats" /\ c = 3 THEN 2 ELSE c

\* -------------------------------------------------------------- the store
Max2(a, b) == IF a >= b THEN a ELSE b

MaxId(rows) == IF rows = {} THEN 0 ELSE CHOOSE n \in {r.id : r \in rows} : \A r \in rows : r.id <= n

\* INTEGER PRIMARY KEY AUTOINCREMENT: one more than the largest id ever used
NextId(rows, seq) == Max2(MaxId(rows), seq) + 1

get_by_telegram_id(telegram_id) == {r \in participants : r.telegram_id = telegram_id}

get_by_phone(phone) == {r \in participants : r.phone = phone}

\* a table whose phone column is not UNIQUE
unique_violated_by_telegram_id_only(rows, telegram_id, phone) ==
  \E r \in rows : r.telegram_id = telegram_id

\* a table whose telegram_id column is not UNIQUE
unique_violated_by_phone_only(rows, telegram_id, phone) ==
  \E r \in rows : r.phone = phone

\* telegram_id INTEGER UNIQUE, phone TEXT UNIQUE: the INSERT raises IntegrityError
unique_violated(rows, telegram_id, phone) ==
  \E r \in rows : r.telegram_id = telegram_id \/ r.phone = phone

new_row(rows, seq, telegram_id, phone, first_name, last_name, consent, t) ==
  [id |-> NextId(rows, seq), telegram_id |-> telegram_id, phone |-> phone,
   first_name |-> first_name, last_name |-> last_name, consent |-> consent,
   created_at |-> IsoOfTick(t)]

\* a WHERE clause whose upper bound is inclusive
in_range_to_inclusive(r, from_iso, to_iso) ==
  /\ from_iso # NoIso => IsoGeq(r.created_at, from_iso)
  /\ to_iso # NoIso => ~IsoLess(to_iso, r.created_at)

\* _range_where_clause: a bound that is None or "" is left out
in_range(r, from_iso, to_iso) ==
  /\ from_iso # NoIso => IsoGeq(r.created_at, from_iso)
  /\ to_iso # NoIso => IsoLess(r.created_at, to_iso)

RECURSIVE SortById(_)
SortById(rows) ==
  IF rows = {} THEN <<>>
  ELSE LET m == CHOOSE r \in rows : \A q \in rows : r.id <= q.id
       IN <<m>> \o SortById(rows \ {m})

\* fetch_participants: ... WHERE ... ORDER BY id ASC
fetch_participants(from_iso, to_iso) ==
  SortById({r \in participants : in_range(r, from_iso, to_iso)})

\* count_participants: SELECT COUNT(*) ... WHERE ...
count_participants(from_iso, to_iso) ==
  Cardinality({r \in participants : in_range(r, from_iso, to_iso)})


\* ---------------------------------------------------------------- messages
NoContact == {}

\* stands in `message` for "no new message"
Continued == [text |-> <<"...">>, contact |-> {}]

TextMsg(text) == [text |-> text, contact |-> NoContact]

\* A shared contact: message.text is None; user_id 0 stands for a contact
\* with no user_id.
ContactMsg(phone_number, user_id) ==
  [text |-> <<>>, contact |-> {[phone_number |-> phone_number, user_id |-> user_id]}]

CommandTexts ==
  {<<"/start">>, <<"/my">>, <<"/reset">>, <<"/admin">>,
   <<"/list">>, <<"/list", " ", "today">>, <<"/list", " ", "D0", " ", "D0">>,
   <<"/list", " ", "zz">>,
   <<"/export">>, <<"/export", " ", "TODAY">>, <<"/export", " ", "D0", " ", "zz">>}

\* plain texts of trimmed length 0, 1, 2, 50 and 51
PlainTexts ==
  {<<>>, <<" ", "a", " ">>, <<" ", "a", "b", " ">>, <<"w48", "a", "b">>,
   <<"w48", "a", "b", "a">>}

AdminButtonTexts ==
  {<<BtnClose>>, <<BtnList>>, <<BtnExport>>, <<BtnExportToday>>, <<BtnReset>>}

RawPhones == {<<"+", "1">>, <<" ", "+", " ", "1">>, <<"+", "2">>, <<>>}

NameStates == {Reg_waiting_first_name, Reg_waiting_last_name}

\* Texts that matter in one state only; in every other state they are one
\* more text the handler does not recognise, as the plain texts are.
StateTexts(st) ==
  CASE st = Reg_waiting_consent -> {<<BtnAgree>>, <<" ", BtnAgree>>, <<BtnDisagree>>}
    [] st = AdminFSM_reset_wait_password -> {<<"pw">>, <<"pw", " ">>, <<BtnBack>>}
    [] st = AdminFSM_reset_confirm -> {<<BtnYesWipe>>, <<BtnCancel>>, <<BtnBack>>}
    [] st \in {AdminFSM_list_wait_from, AdminFSM_export_wait_from} ->
         {<<BtnToday>>, <<BtnAll>>, <<BtnRange>>, <<BtnBack>>, <<"today">>,
          <<"d0", " ", "D1">>, <<"D0", " ", "zz">>}
    [] st \in {AdminFSM_list_wait_to, AdminFSM_export_wait_to} ->
         {<<BtnBack>>, <<"d0">>, <<"D1">>}
    [] OTHER -> {}

\* What one caller sends: `texts` in every state, the texts of its present
\* state, and in the phone step a contact with a number of `phones` whose
\* user_id is of `owners` (none, the caller's own, another user's).
Silent == [texts |-> {}, phones |-> {}, owners |-> {}]

Everything ==
  [texts |-> CommandTexts \cup {<<BtnStart>>} \cup PlainTexts \cup AdminButtonTexts,
   phones |-> RawPhones, owners |-> {"none", "own", "other"}]

Registrant(phones) ==
  [texts |-> {<<BtnStart>>, <<" ", "a", "b", " ">>, <<" ", "a", " ">>},
   phones |-> phones, owners |-> {"own"}]

\* a registrant who makes no mistake
Lean(phones) ==
  [texts |-> {<<BtnStart>>, <<" ", "a", "b", " ">>}, phones |-> phones, owners |-> {"own"}]

Profile(c) ==
  CASE scen = "solo_admin" ->
         IF c = 1
         THEN [texts |-> {<<"/start">>, <<"/my">>, <<"/reset">>, <<"/admin">>, <<"/list">>,
                          <<"/export">>, <<BtnStart>>, <<>>, <<" ", "a", "b", " ">>}
                         \cup AdminButtonTexts,
               phones |-> {<<" ", "+", " ", "1">>}, owners |-> {"own"}]
         ELSE Silent
    [] scen = "commands" ->
         IF c = 1 THEN [texts |-> CommandTexts, phones |-> {}, owners |-> {}]
         ELSE IF c = 2 THEN Lean({<<"+", "1">>})
         ELSE Silent
    [] scen = "no_secret" ->
         IF c = 1
         THEN [texts |-> {<<BtnReset>>, <<BtnClose>>, <<"/admin">>, <<"/reset">>, <<>>,
                          <<"pw">>, <<BtnYesWipe>>},
               phones |-> {}, owners |-> {}]
         ELSE IF c = 2 THEN Registrant({<<"+", "1">>})
         ELSE Silent
    [] scen = "solo_user" -> IF c = 2 THEN Everything ELSE Silent
    [] scen = "race" ->
         IF c = 2 THEN Registrant({<<"+", "1">>, <<" ", "+", " ", "1">>, <<"+", "2">>})
         ELSE IF c = 3 THEN Registrant({<<"+", "1">>})
         ELSE Silent
    [] scen = "wipe" ->
         IF c = 1
         THEN [texts |-> {<<BtnStart>>, <<" ", "a", "b", " ">>, <<BtnReset>>},
               phones |-> {<<"+", "1">>}, owners |-> {"own"}]
         ELSE IF c = 2 THEN Registrant({<<"+", "1">>, <<"+", "2">>})
         ELSE Silent
    [] scen = "clock" ->
         IF c = 1
         THEN [texts |-> {<<"/list">>, <<"/list", " ", "today">>,
                          <<"/list", " ", "D0", " ", "D0">>, <<"/export", " ", "TODAY">>},
               phones |-> {}, owners |-> {}]
         ELSE IF c = 2 THEN Lean({<<"+", "1">>})
         ELSE IF c = 3 THEN Lean({<<"+", "2">>})
         ELSE Silent
    [] scen = "outage" ->
         IF c = 1
         THEN [texts |-> {<<BtnStart>>, <<" ", "a", "b", " ">>, <<BtnList>>,
                          <<BtnExportToday>>, <<BtnReset>>},
               phones |-> {<<"+", "1">>}, owners |-> {"own"}]
         ELSE Silent
    [] scen = "two_chats" ->
         IF c = 2 THEN [Registrant({<<"+", "1">>}) EXCEPT !.texts = @ \cup {<<"/my">>}]
         ELSE IF c = 3 THEN Registrant({<<"+", "1">>, <<"+", "2">>})
         ELSE Silent
    [] OTHER -> Silent

OneChatScenarios == {"solo_admin", "commands", "no_secret", "outage", "solo_user", "race", "wipe", "clock"}
AllScenarios == OneChatScenarios \cup {"two_chats"}

ContactOwner(c, tag) ==
  CASE tag = "none" -> 0
    [] tag = "own" -> from_user_id(c)
    [] OTHER -> (from_user_id(c) % 3) + 1

\* The events caller c may send in its present state.  A text of a button
\* of the admin menu is left out while a caller who is no admin is asked
\* for a name: there it is one more valid name.
Inputs(c) ==
  LET p == Profile(c)
      buttons == IF ~is_admin(from_user_id(c)) /\ fsm_state[c] \in NameStates
                 THEN AdminButtonTexts ELSE {}
  IN IF p.texts = {} THEN {}
     ELSE {TextMsg(t) : t \in (p.texts \ buttons) \cup StateTexts(fsm_state[c])}
          \cup (IF fsm_state[c] = Reg_waiting_phone
                THEN {ContactMsg(ph, ContactOwner(c, o)) : ph \in p.phones, o \in p.owners}
                ELSE {})

\* ------------------------------------------------------------ the dispatcher
\* Command(...) / CommandStart(): the first word of the text is the command
IsCommand(text, cmd) == text # <<>> /\ text[1] = cmd

\* a dispatcher that asks the state handlers before the start button
Route_start_button_last(c, m) ==
  LET text == m.text
      admin == is_admin(from_user_id(c))
      st == fsm_state[c]
  IN IF IsCommand(text, "/start") THEN "start"
     ELSE IF IsCommand(text, "/my") THEN "cmd_my"
     ELSE IF IsCommand(text, "/reset") THEN "cmd_reset"
     ELSE IF IsCommand(text, "/admin") THEN "cmd_admin"
     ELSE IF IsCommand(text, "/list") THEN "cmd_list"
     ELSE IF IsCommand(text, "/export") THEN "cmd_export"
     ELSE IF admin /\ text = <<BtnClose>> THEN "admin_close_menu"
     ELSE IF admin /\ text = <<BtnList>> THEN "admin_menu_list"
     ELSE IF admin /\ text = <<BtnExport>> THEN "admin_menu_export"
     ELSE IF admin /\ text = <<BtnExportToday>> THEN "admin_menu_export_today"
     ELSE IF admin /\ text = <<BtnReset>> THEN "admin_menu_reset"
     ELSE IF st = AdminFSM_reset_wait_password THEN "admin_reset_password_step"
     ELSE IF st = AdminFSM_reset_confirm THEN "admin_reset_confirm"
     ELSE IF st = AdminFSM_list_wait_from THEN "admin_list_filter_step"
     ELSE IF st = AdminFSM_list_wait_to THEN "admin_list_range_collect"
     ELSE IF st = AdminFSM_export_wait_from THEN "admin_export_filter_step"
     ELSE IF st = AdminFSM_export_wait_to THEN "admin_export_range_collect"
     ELSE IF st = Reg_waiting_consent THEN "on_consent"
     ELSE IF st = Reg_waiting_phone THEN "on_phone"
     ELSE IF st = Reg_waiting_first_name THEN "on_first_name"
     ELSE IF st = Reg_waiting_last_name THEN "on_last_name"
     ELSE IF text = <<BtnStart>> THEN "on_user_start_button"
     ELSE "unhandled"

\* main(): the first registered handler whose filter accepts the message
Route(c, m) ==
  LET text == m.text
      admin == is_admin(from_user_id(c))
      st == fsm_state[c]
  IN IF IsCommand(text, "/start") THEN "start"
     ELSE IF text = <<BtnStart>> THEN "on_user_start_button"
     ELSE IF IsCommand(text, "/my") THEN "cmd_my"
     ELSE IF IsCommand(text, "/reset") THEN "cmd_reset"
     ELSE IF IsCommand(text, "/admin") THEN "cmd_admin"
     ELSE IF IsCommand(text, "/list") THEN "cmd_list"
     ELSE IF IsCommand(text, "/export") THEN "cmd_export"
     ELSE IF admin /\ text = <<BtnClose>> THEN "admin_close_menu"
     ELSE IF admin /\ text = <<BtnList>> THEN "admin_menu_list"
     ELSE IF admin /\ text = <<BtnExport>> THEN "admin_menu_export"
     ELSE IF admin /\ text = <<BtnExportToday>> THEN "admin_menu_export_today"
     ELSE IF admin /\ text = <<BtnReset>> THEN "admin_menu_reset"
     ELSE IF st = AdminFSM_reset_wait_password THEN "admin_reset_password_step"
     ELSE IF st = AdminFSM_reset_confirm THEN "admin_reset_confirm"
     ELSE IF st = AdminFSM_list_wait_from THEN "admin_list_filter_step"
     ELSE IF st = AdminFSM_list_wait_to THEN "admin_list_range_collect"
     ELSE IF st = AdminFSM_export_wait_from THEN "admin_export_filter_step"
     ELSE IF st = AdminFSM_export_wait_to THEN "admin_export_range_collect"
     ELSE IF st = Reg_waiting_consent THEN "on_consent"
     ELSE IF st = Reg_waiting_phone THEN "on_phone"
     ELSE IF st = Reg_waiting_first_name THEN "on_first_name"
     ELSE IF st = Reg_waiting_last_name THEN "on_last_name"
     ELSE "unhandled"

\* ------------------------------------------------------- the FSM context
EmptyData == <<>>

\* state.update_data(**upd)
UpdateData(d, upd) ==
  [k \in DOMAIN d \cup DOMAIN upd |-> IF k \in DOMAIN upd THEN upd[k] ELSE d[k]]

Idle == "idle"
NoLocal == <<>>

\* One handler step of caller c that leaves its FSM context as (st, dt, ok)
\* and goes on at `at` with locals `loc`.
Step(c, h, st, dt, ok, rp, at, loc) ==
  /\ fsm_state' = [fsm_state EXCEPT ![c] = st]
  /\ fsm_data' = [fsm_data EXCEPT ![c] = dt]
  /\ pw_ok' = [pw_ok EXCEPT ![c] = ok]
  /\ turn' = [who |-> c, handler |-> h, reply |-> rp]
  /\ pc' = [pc EXCEPT ![c] = at]
  /\ local' = [local EXCEPT ![c] = loc]

\* the handler returns after state.clear()
Clear(c, h, rp) == Step(c, h, NoState, EmptyData, FALSE, rp, Idle, NoLocal)

\* the handler returns and has not touched the FSM context
Keep(c, h, rp) == Step(c, h, fsm_state[c], fsm_data[c], pw_ok[c], rp, Idle, NoLocal)

\* the handler returns after set_state(st) / update_data(upd)
Goto(c, h, st, upd, rp) ==
  Step(c, h, st, UpdateData(fsm_data[c], upd), pw_ok[c], rp, Idle, NoLocal)

Say(kind) == [kind |-> kind]
\* no answer yet: the handler waits for the store
Pending == Say("pending")
SayPid(kind, row) == [kind |-> kind, pid |-> row.id]
TheRow(rows) == CHOOSE r \in rows : TRUE

StoreUnchanged == UNCHANGED <<participants, sqlite_sequence>>
EnvUnchanged == UNCHANGED <<RESET_PASSWORD, now, scen>>


\* ------------------------------------------------------------ public flow
\* start: /start
start(c, m) ==
  LET existing == get_by_telegram_id(from_user_id(c))
  IN /\ IF existing # {}
        THEN Clear(c, "start", SayPid("already_registered", TheRow(existing)))
        ELSE Clear(c, "start", Say("press_start"))          \* show_user_start
     /\ StoreUnchanged /\ EnvUnchanged

\* on_user_start_button: the start button
on_user_start_button(c, m) ==
  LET existing == get_by_telegram_id(from_user_id(c))
  IN /\ IF existing # {}
        THEN Clear(c, "on_user_start_button", SayPid("already_registered", TheRow(existing)))
        ELSE Goto(c, "on_user_start_button", Reg_waiting_consent, EmptyData,
                  Say("ask_consent"))
     /\ StoreUnchanged /\ EnvUnchanged

\* cmd_my: /my
cmd_my(c, m) ==
  LET existing == get_by_telegram_id(from_user_id(c))
  IN /\ IF existing = {}
        THEN Keep(c, "cmd_my", Say("not_registered"))
        ELSE Clear(c, "cmd_my", SayPid("my_number", TheRow(existing)))
     /\ StoreUnchanged /\ EnvUnchanged

\* a /reset that forgets the state and keeps the data
cmd_reset_keeps_data(c, m) ==
  /\ Step(c, "cmd_reset", NoState, fsm_data[c], pw_ok[c], Say("step_reset"), Idle, NoLocal)
  /\ StoreUnchanged /\ EnvUnchanged

\* cmd_reset: /reset
cmd_reset(c, m) ==
  /\ Clear(c, "cmd_reset", Say("step_reset"))
  /\ StoreUnchanged /\ EnvUnchanged

\* a consent step that goes on unless the caller disagrees
on_consent_lenient(c, m) ==
  LET text == Strip(m.text)
  IN /\ IF text = <<BtnDisagree>>
        THEN Clear(c, "on_consent", Say("no_consent"))
        ELSE Goto(c, "on_consent", Reg_waiting_phone,
                  IF text = <<BtnAgree>> THEN [consent |-> 1] ELSE EmptyData, Say("ask_phone"))
     /\ StoreUnchanged /\ EnvUnchanged

\* on_consent: state Reg.waiting_consent
on_consent(c, m) ==
  LET text == Strip(m.text)
  IN /\ IF text = <<BtnDisagree>>
        THEN Clear(c, "on_consent", Say("no_consent"))
        ELSE IF text # <<BtnAgree>>
        THEN Keep(c, "on_consent", Say("choose_consent"))
        ELSE Goto(c, "on_consent", Reg_waiting_phone, [consent |-> 1], Say("ask_phone"))
     /\ StoreUnchanged /\ EnvUnchanged

\* on_phone, up to and with get_by_telegram_id: state Reg.waiting_phone
on_phone(c, m) ==
  /\ IF m.contact = NoContact \/ TheRow(m.contact).phone_number = <<>>
     THEN Keep(c, "on_phone", Say("ask_contact"))
     ELSE LET contact == TheRow(m.contact)
              phone == normalize_phone(contact.phone_number)
              existing == get_by_telegram_id(from_user_id(c))
          IN IF contact.user_id # 0 /\ contact.user_id # from_user_id(c)
             THEN Keep(c, "on_phone", Say("ask_own_number"))
             ELSE IF existing # {}
             THEN Clear(c, "on_phone", SayPid("already_registered", TheRow(existing)))
             ELSE Step(c, "on_phone", fsm_state[c], fsm_data[c], pw_ok[c], Pending,
                       "on_phone:get_by_phone", [phone |-> phone])
  /\ StoreUnchanged /\ EnvUnchanged

\* a phone step that moves on and does not keep the phone
on_phone_get_by_phone_forgets_phone(c) ==
  /\ pc[c] = "on_phone:get_by_phone"
  /\ message' = Continued
  /\ LET same_phone == get_by_phone(local[c].phone)
     IN IF same_phone # {} /\ TheRow(same_phone).telegram_id # from_user_id(c)
        THEN Clear(c, "on_phone", Say("phone_registered"))
        ELSE Goto(c, "on_phone", Reg_waiting_first_name, EmptyData, Say("ask_first_name"))
  /\ StoreUnchanged /\ EnvUnchanged

\* a phone step that takes the phone whoever holds it
on_phone_get_by_phone_unchecked(c) ==
  /\ pc[c] = "on_phone:get_by_phone"
  /\ message' = Continued
  /\ Goto(c, "on_phone", Reg_waiting_first_name, [phone |-> local[c].phone],
          Say("ask_first_name"))
  /\ StoreUnchanged /\ EnvUnchanged

\* on_phone, from get_by_phone on
on_phone_get_by_phone(c) ==
  /\ pc[c] = "on_phone:get_by_phone"
  /\ message' = Continued
  /\ LET phone == local[c].phone
         same_phone == get_by_phone(phone)
     IN IF same_phone # {} /\ TheRow(same_phone).telegram_id # from_user_id(c)
        THEN Clear(c, "on_phone",
                   [kind |-> "phone_taken", pid |-> TheRow(same_phone).id,
                    first_name |-> TheRow(same_phone).first_name,
                    last_name |-> TheRow(same_phone).last_name])
        ELSE Goto(c, "on_phone", Reg_waiting_first_name, [phone |-> phone],
                  Say("ask_first_name"))
  /\ StoreUnchanged /\ EnvUnchanged

\* a length check that refuses 50 characters
valid_name_below_50(name) == name # <<>> /\ TextLen(name) >= 2 /\ TextLen(name) < 50

\* the length check of on_first_name and on_last_name
valid_name(name) == name # <<>> /\ TextLen(name) >= 2 /\ TextLen(name) <= 50

\* a first-name step that already saves what it has
on_first_name_saves_partial(c, m) ==
  LET first_name == Strip(m.text)
      row == new_row(participants, sqlite_sequence, from_user_id(c), <<>>, first_name,
                     <<>>, 0, now)
  IN /\ IF ~valid_name(first_name)
        THEN Keep(c, "on_first_name", Say("bad_first_name")) /\ StoreUnchanged
        ELSE /\ Goto(c, "on_first_name", Reg_waiting_last_name,
                     [first_name |-> first_name], Say("ask_last_name"))
             /\ participants' = participants \cup {row}
             /\ sqlite_sequence' = row.id
     /\ EnvUnchanged

\* on_first_name: state Reg.waiting_first_name
on_first_name(c, m) ==
  LET first_name == Strip(m.text)
  IN /\ IF ~valid_name(first_name)
        THEN Keep(c, "on_first_name", Say("bad_first_name"))
        ELSE Goto(c, "on_first_name", Reg_waiting_last_name,
                  [first_name |-> first_name], Say("ask_last_name"))
     /\ StoreUnchanged /\ EnvUnchanged

\* on_last_name, up to and with get_by_telegram_id: state Reg.waiting_last_name
on_last_name(c, m) ==
  LET last_name == Strip(m.text)
      data == fsm_data[c]
      existing == get_by_telegram_id(from_user_id(c))
  IN /\ IF ~valid_name(last_name)
        THEN Keep(c, "on_last_name", Say("bad_last_name"))
        ELSE IF "phone" \notin DOMAIN data \/ "first_name" \notin DOMAIN data
        THEN Keep(c, "on_last_name", Say("KeyError"))
        ELSE IF existing # {}
        THEN Clear(c, "on_last_name", SayPid("already_registered", TheRow(existing)))
        ELSE Step(c, "on_last_name", fsm_state[c], fsm_data[c], pw_ok[c], Pending,
                  "on_last_name:get_by_phone",
                  [phone |-> data.phone, first_name |-> data.first_name,
                   last_name |-> last_name,
                   consent |-> IF "consent" \in DOMAIN data THEN data.consent ELSE 0])
     /\ StoreUnchanged /\ EnvUnchanged

\* on_last_name: get_by_phone
on_last_name_get_by_phone(c) ==
  /\ pc[c] = "on_last_name:get_by_phone"
  /\ message' = Continued
  /\ LET same_phone == get_by_phone(local[c].phone)
     IN IF same_phone # {} /\ TheRow(same_phone).telegram_id # from_user_id(c)
        THEN Clear(c, "on_last_name", Say("phone_registered"))
        ELSE Step(c, "on_last_name", fsm_state[c], fsm_data[c], pw_ok[c], Pending,
                  "on_last_name:insert", local[c])
  /\ StoreUnchanged /\ EnvUnchanged

\* an INSERT that no constraint rejects
insert_participant_unchecked(c) ==
  LET l == local[c]
      row == new_row(participants, sqlite_sequence, from_user_id(c), l.phone, l.first_name,
                     l.last_name, l.consent, now)
  IN /\ participants' = participants \cup {row}
     /\ sqlite_sequence' = row.id
     /\ Clear(c, "on_last_name", SayPid("registered", row))

\* a rejected INSERT that uses up the number it would have given
insert_participant_burns_number(c) ==
  LET l == local[c]
      row == new_row(participants, sqlite_sequence, from_user_id(c), l.phone, l.first_name,
                     l.last_name, l.consent, now)
  IN IF unique_violated(participants, from_user_id(c), l.phone)
     THEN /\ participants' = participants
          /\ sqlite_sequence' = row.id
          /\ Step(c, "on_last_name", fsm_state[c], fsm_data[c], pw_ok[c], Pending,
                  "on_last_name:requery", l)
     ELSE /\ participants' = participants \cup {row}
          /\ sqlite_sequence' = row.id
          /\ Clear(c, "on_last_name", SayPid("registered", row))

\* insert_participant, as on_last_name calls it: the INSERT commits and the
\* handler answers with the new id, or the INSERT raises IntegrityError
insert_participant(c) ==
  LET l == local[c]
      row == new_row(participants, sqlite_sequence, from_user_id(c), l.phone, l.first_name,
                     l.last_name, l.consent, now)
  IN IF unique_violated(participants, from_user_id(c), l.phone)
     THEN /\ StoreUnchanged
          /\ Step(c, "on_last_name", fsm_state[c], fsm_data[c], pw_ok[c], Pending,
                  "on_last_name:requery", l)
     ELSE /\ participants' = participants \cup {row}
          /\ sqlite_sequence' = row.id
          /\ Clear(c, "on_last_name", SayPid("registered", row))

\* on_last_name: the try block
on_last_name_insert(c) ==
  /\ pc[c] = "on_last_name:insert"
  /\ message' = Continued
  /\ insert_participant(c)
  /\ EnvUnchanged

\* on_last_name: except aiosqlite.IntegrityError
on_last_name_requery(c) ==
  /\ pc[c] = "on_last_name:requery"
  /\ message' = Continued
  /\ LET existing == get_by_telegram_id(from_user_id(c))
     IN IF existing # {}
        THEN Clear(c, "on_last_name", SayPid("already_registered", TheRow(existing)))
        ELSE Clear(c, "on_last_name", Say("register_failed"))
  /\ StoreUnchanged /\ EnvUnchanged


\* ---------------------------------------------------------- list / export
PreviewCap == 30

Ids(rows) == [i \in 1..Len(rows) |-> rows[i].id]

FilterLabel(args) ==
  IF Lower(Strip(args)) = <<"today">> THEN <<"today">> ELSE Strip(args)

\* send_list, up to and with count_participants; the caller has left the FSM
\* context as (st, dt, ok)
send_list(c, h, args, st, dt, ok) ==
  LET r == range_from_args(args, now)
  IN IF r[3] # NoErr
     THEN Step(c, h, st, dt, ok, [kind |-> "range_error", err |-> r[3]], Idle, NoLocal)
     ELSE Step(c, h, st, dt, ok, Pending, "send_list:fetch",
               [h |-> h, args |-> args, from_iso |-> r[1], to_iso |-> r[2],
                cnt |-> count_participants(r[1], r[2])])

\* send_list, from fetch_participants on
send_list_fetch(c) ==
  /\ pc[c] = "send_list:fetch"
  /\ message' = Continued
  /\ LET l == local[c]
         rows == fetch_participants(l.from_iso, l.to_iso)
         preview == SubSeq(rows, 1, IF Len(rows) < PreviewCap THEN Len(rows) ELSE PreviewCap)
     IN Keep(c, l.h,
             [kind |-> "list", label |-> FilterLabel(l.args), cnt |-> l.cnt,
              lines |-> Ids(preview),
              more |-> IF l.cnt > Len(preview) THEN l.cnt - Len(preview) ELSE 0])
  /\ StoreUnchanged /\ EnvUnchanged

\* send_export; the caller has left the FSM context as (st, dt, ok)
send_export(c, h, args, st, dt, ok) ==
  LET r == range_from_args(args, now)
      rows == fetch_participants(r[1], r[2])
  IN IF r[3] # NoErr
     THEN Step(c, h, st, dt, ok, [kind |-> "range_error", err |-> r[3]], Idle, NoLocal)
     ELSE IF rows = <<>>
     THEN Step(c, h, st, dt, ok, Say("export_empty"), Idle, NoLocal)
     ELSE Step(c, h, st, dt, ok,
               [kind |-> "export", label |-> FilterLabel(args), rows |-> Ids(rows)],
               Idle, NoLocal)

\* ------------------------------------------------------------ admin handlers
\* cmd_admin: /admin
cmd_admin(c, m) ==
  /\ IF ~is_admin(from_user_id(c))
     THEN Keep(c, "cmd_admin", Say("admin_only"))
     ELSE Clear(c, "cmd_admin", Say("admin_menu"))
  /\ StoreUnchanged /\ EnvUnchanged

\* admin_close_menu
admin_close_menu(c, m) ==
  /\ IF ~is_admin(from_user_id(c))
     THEN Keep(c, "admin_close_menu", Say("none"))
     ELSE Clear(c, "admin_close_menu", Say("menu_closed"))
  /\ StoreUnchanged /\ EnvUnchanged

\* message.text.replace("/list", "", 1).strip()
CommandArgs(text) == Strip(Tail(text))

\* a /list without the is_admin check
cmd_list_ungated(c, m) ==
  /\ send_list(c, "cmd_list", CommandArgs(m.text), fsm_state[c], fsm_data[c], pw_ok[c])
  /\ StoreUnchanged /\ EnvUnchanged

\* cmd_list: /list [args]
cmd_list(c, m) ==
  /\ IF ~is_admin(from_user_id(c))
     THEN Keep(c, "cmd_list", Say("admin_only"))
     ELSE send_list(c, "cmd_list", CommandArgs(m.text), fsm_state[c], fsm_data[c], pw_ok[c])
  /\ StoreUnchanged /\ EnvUnchanged

\* cmd_export: /export [args]
cmd_export(c, m) ==
  /\ IF ~is_admin(from_user_id(c))
     THEN Keep(c, "cmd_export", Say("admin_only"))
     ELSE send_export(c, "cmd_export", CommandArgs(m.text), fsm_state[c], fsm_data[c],
                      pw_ok[c])
  /\ StoreUnchanged /\ EnvUnchanged

\* admin_menu_list
admin_menu_list(c, m) ==
  /\ IF ~is_admin(from_user_id(c))
     THEN Keep(c, "admin_menu_list", Say("none"))
     ELSE Goto(c, "admin_menu_list", AdminFSM_list_wait_from, EmptyData,
               Say("choose_list_filter"))
  /\ StoreUnchanged /\ EnvUnchanged

\* admin_menu_export
admin_menu_export(c, m) ==
  /\ IF ~is_admin(from_user_id(c))
     THEN Keep(c, "admin_menu_export", Say("none"))
     ELSE Goto(c, "admin_menu_export", AdminFSM_export_wait_from, EmptyData,
               Say("choose_export_filter"))
  /\ StoreUnchanged /\ EnvUnchanged

\* admin_menu_export_today
admin_menu_export_today(c, m) ==
  /\ IF ~is_admin(from_user_id(c))
     THEN Keep(c, "admin_menu_export_today", Say("none"))
     ELSE send_export(c, "admin_menu_export_today", <<"today">>, NoState, EmptyData, FALSE)
  /\ StoreUnchanged /\ EnvUnchanged

\* admin_list_filter_step: state AdminFSM.list_wait_from
admin_list_filter_step(c, m) ==
  LET t == Strip(m.text)
      h == "admin_list_filter_step"
  IN /\ IF ~is_admin(from_user_id(c)) THEN Keep(c, h, Say("none"))
        ELSE IF t = <<BtnBack>> THEN Clear(c, h, Say("admin_menu"))
        ELSE IF t = <<BtnAll>> THEN send_list(c, h, <<>>, NoState, EmptyData, FALSE)
        ELSE IF t = <<BtnToday>> THEN send_list(c, h, <<"today">>, NoState, EmptyData, FALSE)
        ELSE IF t = <<BtnRange>>
        THEN Goto(c, h, AdminFSM_list_wait_to, [list_step |-> "from"], Say("ask_date_from"))
        ELSE IF range_from_args(t, now)[3] # NoErr
        THEN Keep(c, h, Say("filter_not_understood"))
        ELSE send_list(c, h, t, NoState, EmptyData, FALSE)
     /\ StoreUnchanged /\ EnvUnchanged

\* admin_list_range_collect: state AdminFSM.list_wait_to
admin_list_range_collect(c, m) ==
  LET t == Strip(m.text)
      h == "admin_list_range_collect"
      data == fsm_data[c]
      d == parse_ymd(t)
  IN /\ IF ~is_admin(from_user_id(c)) THEN Keep(c, h, Say("none"))
        ELSE IF t = <<BtnBack>> THEN Clear(c, h, Say("admin_menu"))
        ELSE IF "list_step" \in DOMAIN data /\ data.list_step = "from"
        THEN IF d = NoDate
             THEN Keep(c, h, Say("bad_date_from"))
             ELSE Goto(c, h, fsm_state[c],
                       [list_from |-> date_isoformat(d), list_step |-> "to"],
                       Say("ask_date_to"))
        ELSE IF d = NoDate THEN Keep(c, h, Say("bad_date_to"))
        ELSE IF "list_from" \notin DOMAIN data THEN Keep(c, h, Say("KeyError"))
        ELSE send_list(c, h,
                       <<date_isoformat(parse_ymd(<<data.list_from>>)), " ",
                         date_isoformat(d)>>,
                       NoState, EmptyData, FALSE)
     /\ StoreUnchanged /\ EnvUnchanged

\* admin_export_filter_step: state AdminFSM.export_wait_from
admin_export_filter_step(c, m) ==
  LET t == Strip(m.text)
      h == "admin_export_filter_step"
  IN /\ IF ~is_admin(from_user_id(c)) THEN Keep(c, h, Say("none"))
        ELSE IF t = <<BtnBack>> THEN Clear(c, h, Say("admin_menu"))
        ELSE IF t = <<BtnAll>> THEN send_export(c, h, <<>>, NoState, EmptyData, FALSE)
        ELSE IF t = <<BtnToday>> THEN send_export(c, h, <<"today">>, NoState, EmptyData, FALSE)
        ELSE IF t = <<BtnRange>>
        THEN Goto(c, h, AdminFSM_export_wait_to, [export_step |-> "from"],
                  Say("ask_date_from"))
        ELSE IF range_from_args(t, now)[3] # NoErr
        THEN Keep(c, h, Say("filter_not_understood"))
        ELSE send_export(c, h, t, NoState, EmptyData, FALSE)
     /\ StoreUnchanged /\ EnvUnchanged

\* admin_export_range_collect: state AdminFSM.export_wait_to
admin_export_range_collect(c, m) ==
  LET t == Strip(m.text)
      h == "admin_export_range_collect"
      data == fsm_data[c]
      d == parse_ymd(t)
  IN /\ IF ~is_admin(from_user_id(c)) THEN Keep(c, h, Say("none"))
        ELSE IF t = <<BtnBack>> THEN Clear(c, h, Say("admin_menu"))
        ELSE IF "export_step" \in DOMAIN data /\ data.export_step = "from"
        THEN IF d = NoDate
             THEN Keep(c, h, Say("bad_date_from"))
             ELSE Goto(c, h, fsm_state[c],
                       [export_from |-> date_isoformat(d), export_step |-> "to"],
                       Say("ask_date_to"))
        ELSE IF d = NoDate THEN Keep(c, h, Say("bad_date_to"))
        ELSE IF "export_from" \notin DOMAIN data THEN Keep(c, h, Say("KeyError"))
        ELSE send_export(c, h,
                         <<date_isoformat(parse_ymd(<<data.export_from>>)), " ",
                           date_isoformat(d)>>,
                         NoState, EmptyData, FALSE)
     /\ StoreUnchanged /\ EnvUnchanged

\* ------------------------------------------------------- reset with password
\* a reset entry without the check that RESET_PASSWORD is set
admin_menu_reset_unguarded(c, m) ==
  /\ IF ~is_admin(from_user_id(c)) THEN Keep(c, "admin_menu_reset", Say("none"))
     ELSE Goto(c, "admin_menu_reset", AdminFSM_reset_wait_password, EmptyData,
               Say("ask_password"))
  /\ StoreUnchanged /\ EnvUnchanged

\* admin_menu_reset
admin_menu_reset(c, m) ==
  /\ IF ~is_admin(from_user_id(c)) THEN Keep(c, "admin_menu_reset", Say("none"))
     ELSE IF RESET_PASSWORD = <<>>
     THEN Clear(c, "admin_menu_reset", Say("reset_password_not_set"))
     ELSE Goto(c, "admin_menu_reset", AdminFSM_reset_wait_password, EmptyData,
               Say("ask_password"))
  /\ StoreUnchanged /\ EnvUnchanged

\* a password step without the Back branch
admin_reset_password_step_no_back(c, m) ==
  LET t == Strip(m.text)
      h == "admin_reset_password_step"
  IN /\ IF ~is_admin(from_user_id(c)) THEN Keep(c, h, Say("none"))
        ELSE IF t # RESET_PASSWORD THEN Keep(c, h, Say("wrong_password"))
        ELSE Step(c, h, AdminFSM_reset_confirm, fsm_data[c], TRUE, Say("confirm_reset"),
                  Idle, NoLocal)
     /\ StoreUnchanged /\ EnvUnchanged

\* a password step that goes on whatever the text is
admin_reset_password_step_any(c, m) ==
  LET t == Strip(m.text)
      h == "admin_reset_password_step"
  IN /\ IF ~is_admin(from_user_id(c)) THEN Keep(c, h, Say("none"))
        ELSE IF t = <<BtnBack>> THEN Clear(c, h, Say("admin_menu"))
        ELSE Step(c, h, AdminFSM_reset_confirm, fsm_data[c], t = RESET_PASSWORD,
                  Say("confirm_reset"), Idle, NoLocal)
     /\ StoreUnchanged /\ EnvUnchanged

\* admin_reset_password_step: state AdminFSM.reset_wait_password
admin_reset_password_step(c, m) ==
  LET t == Strip(m.text)
      h == "admin_reset_password_step"
  IN /\ IF ~is_admin(from_user_id(c)) THEN Keep(c, h, Say("none"))
        ELSE IF t = <<BtnBack>> THEN Clear(c, h, Say("admin_menu"))
        ELSE IF t # RESET_PASSWORD THEN Keep(c, h, Say("wrong_password"))
        ELSE Step(c, h, AdminFSM_reset_confirm, fsm_data[c], TRUE, Say("confirm_reset"),
                  Idle, NoLocal)
     /\ StoreUnchanged /\ EnvUnchanged

\* a reset that deletes the rows and leaves sqlite_sequence
reset_database_keeps_sequence ==
  /\ participants' = {}
  /\ sqlite_sequence' = sqlite_sequence

\* reset_database: both DELETEs commit as one transaction
reset_database ==
  /\ participants' = {}
  /\ sqlite_sequence' = 0

\* a confirmation step that wipes unless the answer is Cancel
admin_reset_confirm_default_yes(c, m) ==
  LET t == Strip(m.text)
      h == "admin_reset_confirm"
  IN /\ IF ~is_admin(from_user_id(c)) THEN Keep(c, h, Say("none")) /\ StoreUnchanged
        ELSE IF t = <<BtnCancel>> THEN Clear(c, h, Say("reset_cancelled")) /\ StoreUnchanged
        ELSE reset_database /\ Clear(c, h, Say("wiped"))
     /\ EnvUnchanged

\* a confirmation step whose Cancel leaves the caller in the step
admin_reset_confirm_cancel_stays(c, m) ==
  LET t == Strip(m.text)
      h == "admin_reset_confirm"
  IN /\ IF ~is_admin(from_user_id(c)) THEN Keep(c, h, Say("none")) /\ StoreUnchanged
        ELSE IF t = <<BtnCancel>> THEN Keep(c, h, Say("reset_cancelled")) /\ StoreUnchanged
        ELSE IF t # <<BtnYesWipe>> THEN Keep(c, h, Say("choose_confirm")) /\ StoreUnchanged
        ELSE reset_database /\ Clear(c, h, Say("wiped"))
     /\ EnvUnchanged

\* admin_reset_confirm: state AdminFSM.reset_confirm
admin_reset_confirm(c, m) ==
  LET t == Strip(m.text)
      h == "admin_reset_confirm"
  IN /\ IF ~is_admin(from_user_id(c)) THEN Keep(c, h, Say("none")) /\ StoreUnchanged
        ELSE IF t = <<BtnCancel>> THEN Clear(c, h, Say("reset_cancelled")) /\ StoreUnchanged
        ELSE IF t # <<BtnYesWipe>> THEN Keep(c, h, Say("choose_confirm")) /\ StoreUnchanged
        ELSE reset_database /\ Clear(c, h, Say("wiped"))
     /\ EnvUnchanged

\* no handler accepts the message: nothing happens
unhandled(c, m) ==
  /\ Keep(c, "unhandled", Say("none"))
  /\ StoreUnchanged /\ EnvUnchanged

\* ------------------------------------------------------ the store fails
\* The FSM context <<reached, state, data, password accepted>> that handler h
\* has set on message m when it makes its first call of the store, if it
\* makes one: the list and export steps have called state.clear() by then,
\* every other handler has not touched the context.
AtStoreCall(c, h, m) ==
  LET t == Strip(m.text)
      data == fsm_data[c]
      admin == is_admin(from_user_id(c))
      asis(reached) == <<reached, fsm_state[c], fsm_data[c], pw_ok[c]>>
      cleared(reached) == <<reached, NoState, EmptyData, FALSE>>
  IN CASE h \in {"start", "on_user_start_button", "cmd_my"} -> asis(TRUE)
       [] h = "on_phone" ->
            asis(/\ m.contact # NoContact
                 /\ TheRow(m.contact).phone_number # <<>>
                 /\ TheRow(m.contact).user_id \in {0, from_user_id(c)})
       [] h = "on_last_name" ->
            asis(valid_name(t) /\ {"phone", "first_name"} \subseteq DOMAIN data)
       [] h \in {"cmd_list", "cmd_export"} ->
            asis(admin /\ range_from_args(CommandArgs(m.text), now)[3] = NoErr)
       [] h = "admin_menu_export_today" -> cleared(admin)
       [] h \in {"admin_list_filter_step", "admin_export_filter_step"} ->
            cleared(/\ admin
                    /\ t \notin {<<BtnBack>>, <<BtnRange>>}
                    /\ (t \in {<<BtnAll>>, <<BtnToday>>} \/ range_from_args(t, now)[3] = NoErr))
       [] h = "admin_list_range_collect" ->
            cleared(/\ admin /\ t # <<BtnBack>>
                    /\ ~("list_step" \in DOMAIN data /\ data.list_step = "from")
                    /\ parse_ymd(t) # NoDate /\ "list_from" \in DOMAIN data)
       [] h = "admin_export_range_collect" ->
            cleared(/\ admin /\ t # <<BtnBack>>
                    /\ ~("export_step" \in DOMAIN data /\ data.export_step = "from")
                    /\ parse_ymd(t) # NoDate /\ "export_from" \in DOMAIN data)
       [] h = "admin_reset_confirm" -> asis(admin /\ t = <<BtnYesWipe>>)
       [] OTHER -> asis(FALSE)

\* The handler in flight at pc[c].
InFlight(c) ==
  CASE pc[c] = "on_phone:get_by_phone" -> "on_phone"
    [] pc[c] = "send_list:fetch" -> local[c].h
    [] OTHER -> "on_last_name"

\* aiosqlite raises in the first store call of the handler of message m:
\* the exception leaves the handler, which answers nothing.
store_unavailable(c, m) ==
  LET h == Route(c, m)
      at == AtStoreCall(c, h, m)
  IN /\ scen = "outage"
     /\ pc[c] = Idle
     /\ at[1]
     /\ message' = m
     /\ Step(c, h, at[2], at[3], at[4], Say("store_unavailable"), Idle, NoLocal)
     /\ StoreUnchanged /\ EnvUnchanged

\* aiosqlite raises in a later store call of a handler
store_unavailable_later(c) ==
  /\ scen = "outage"
  /\ pc[c] # Idle
  /\ message' = Continued
  /\ Keep(c, InFlight(c), Say("store_unavailable"))
  /\ StoreUnchanged /\ EnvUnchanged

\* ------------------------------------------------------------ specification
\* The event loop hands message m of idle caller c to handler h, the one
\* Route names.
Deliver(c, h, m) == pc[c] = Idle /\ Route(c, m) = h /\ message' = m

\* The events of caller c that begin with word w / that arrive in state st:
\* the only ones Route can hand to the handler of that command, button or
\* state.
Starting(c, w) == {m \in Inputs(c) : IsCommand(m.text, w)}
Arriving(c, st) == IF fsm_state[c] = st THEN Inputs(c) ELSE {}

\* The clock advances.
Tick ==
  /\ scen = "clock"
  /\ now < MaxNow
  /\ now' = now + 1
  /\ UNCHANGED <<participants, sqlite_sequence, RESET_PASSWORD, fsm_state, fsm_data, pc,
                 local, turn, message, pw_ok, scen>>

InitIn(scenarios) ==
  /\ scen \in scenarios
  /\ participants = {}
  /\ sqlite_sequence = 0
  /\ RESET_PASSWORD = IF scen = "no_secret" THEN <<>> ELSE <<"pw">>
  /\ now = 0
  /\ fsm_state = [c \in Callers |-> NoState]
  /\ fsm_data = [c \in Callers |-> EmptyData]
  /\ pc = [c \in Callers |-> Idle]
  /\ local = [c \in Callers |-> NoLocal]
  /\ turn = [who |-> 0, handler |-> "none", reply |-> Say("none")]
  /\ message = Continued
  /\ pw_ok = [c \in Callers |-> FALSE]

\* every chat is a user of its own
Init == InitIn(OneChatScenarios)

\* as Init, and also: one user writes from two chats
InitTwoChats == InitIn(AllScenarios)

Next ==
  \/ \E c \in Callers : \E m \in Starting(c, "/start") :
        Deliver(c, "start", m) /\ start(c, m)
  \/ \E c \in Callers : \E m \in Starting(c, BtnStart) :
        Deliver(c, "on_user_start_button", m) /\ on_user_start_button(c, m)
  \/ \E c \in Callers : \E m \in Starting(c, "/my") :
        Deliver(c, "cmd_my", m) /\ cmd_my(c, m)
  \/ \E c \in Callers : \E m \in Starting(c, "/reset") :
        Deliver(c, "cmd_reset", m) /\ cmd_reset(c, m)
  \/ \E c \in Callers : \E m \in Starting(c, "/admin") :
        Deliver(c, "cmd_admin", m) /\ cmd_admin(c, m)
  \/ \E c \in Callers : \E m \in Starting(c, "/list") :
        Deliver(c, "cmd_list", m) /\ cmd_list(c, m)
  \/ \E c \in Callers : \E m \in Starting(c, "/export") :
        Deliver(c, "cmd_export", m) /\ cmd_export(c, m)
  \/ \E c \in Callers : \E m \in Starting(c, BtnClose) :
        Deliver(c, "admin_close_menu", m) /\ admin_close_menu(c, m)
  \/ \E c \in Callers : \E m \in Starting(c, BtnList) :
        Deliver(c, "admin_menu_list", m) /\ admin_menu_list(c, m)
  \/ \E c \in Callers : \E m \in Starting(c, BtnExport) :
        Deliver(c, "admin_menu_export", m) /\ admin_menu_export(c, m)
  \/ \E c \in Callers : \E m \in Starting(c, BtnExportToday) :
        Deliver(c, "admin_menu_export_today", m) /\ admin_menu_export_today(c, m)
  \/ \E c \in Callers : \E m \in Starting(c, BtnReset) :
        Deliver(c, "admin_menu_reset", m) /\ admin_menu_reset(c, m)
  \/ \E c \in Callers : \E m \in Arriving(c, AdminFSM_reset_wait_password) :
        Deliver(c, "admin_reset_password_step", m) /\ admin_reset_password_step(c, m)
  \/ \E c \in Callers : \E m \in Arriving(c, AdminFSM_reset_confirm) :
        Deliver(c, "admin_reset_confirm", m) /\ admin_reset_confirm(c, m)
  \/ \E c \in Callers : \E m \in Arriving(c, AdminFSM_list_wait_from) :
        Deliver(c, "admin_list_filter_step", m) /\ admin_list_filter_step(c, m)
  \/ \E c \in Callers : \E m \in Arriving(c, AdminFSM_list_wait_to) :
        Deliver(c, "admin_list_range_collect", m) /\ admin_list_range_collect(c, m)
  \/ \E c \in Callers : \E m \in Arriving(c, AdminFSM_export_wait_from) :
        Deliver(c, "admin_export_filter_step", m) /\ admin_export_filter_step(c, m)
  \/ \E c \in Callers : \E m \in Arriving(c, AdminFSM_export_wait_to) :
        Deliver(c, "admin_export_range_collect", m) /\ admin_export_range_collect(c, m)
  \/ \E c \in Callers : \E m \in Arriving(c, Reg_waiting_consent) :
        Deliver(c, "on_consent", m) /\ on_consent(c, m)
  \/ \E c \in Callers : \E m \in Arriving(c, Reg_waiting_phone) :
        Deliver(c, "on_phone", m) /\ on_phone(c, m)
  \/ \E c \in Callers : \E m \in Arriving(c, Reg_waiting_first_name) :
        Deliver(c, "on_first_name", m) /\ on_first_name(c, m)
  \/ \E c \in Callers : \E m \in Arriving(c, Reg_waiting_last_name) :
        Deliver(c, "on_last_name", m) /\ on_last_name(c, m)
  \/ \E c \in Callers : \E m \in Inputs(c) :
        Deliver(c, "unhandled", m) /\ unhandled(c, m)
  \/ \E c \in Callers : on_phone_get_by_phone(c)
  \/ \E c \in Callers : on_last_name_get_by_phone(c)
  \/ \E c \in Callers : on_last_name_insert(c)
  \/ \E c \in Callers : on_last_name_requery(c)
  \/ \E c \in Callers : send_list_fetch(c)
  \/ \E c \in Callers : \E m \in Inputs(c) : store_unavailable(c, m)
  \/ \E c \in Callers : store_unavailable_later(c)
  \/ Tick

Spec == Init /\ [][Next]_vars

SpecTwoChats == InitTwoChats /\ [][Next]_vars


\* ------------------------------------------------------------- properties
\* Caller c takes the step: every step but Tick names its caller in turn.
Acts(c) == now' = now /\ turn'.who = c

HasRecord(c) == get_by_telegram_id(from_user_id(c)) # {}

\* C1: in every reachable state no two distinct records share an identity
\* and no two distinct records share a phone, whatever registration events
\* and wipes came before, from one chat or from two chats of one user.
C1_UniqueIdentityAndPhone ==
  \A p, q \in participants :
    p # q => p.telegram_id # q.telegram_id /\ p.phone # q.phone

\* an INSERT was rejected for its phone while the record that holds it stays
C1_Witness ==
  /\ turn.reply.kind = "register_failed"
  /\ \E r \in participants : r.telegram_id # from_user_id(turn.who)

\* C2: when the last-name handler of a caller returns after its checks,
\* INSERT or re-query, the caller's session is cleared; the caller is told
\* "registered" exactly when the step added its own record, with the number
\* reported; every other outcome leaves the store as it was.  Where only
\* the registrants act (scenario "race"), exactly one record then holds the
\* phone the caller asked for: of two callers racing for it one wins.
LastNameInFlight == {"on_last_name:get_by_phone", "on_last_name:insert", "on_last_name:requery"}

C2_Returns(c) ==
  LET mine == {r \in participants' : r.telegram_id = from_user_id(c)}
      holders == {r \in participants' : r.phone = local[c].phone}
  IN /\ fsm_state'[c] = NoState
     /\ fsm_data'[c] = EmptyData
     /\ turn'.who = c
     /\ turn'.reply.kind \in
          {"registered", "phone_registered", "already_registered", "register_failed"}
     /\ IF turn'.reply.kind = "registered"
        THEN /\ ~HasRecord(c)
             /\ participants' = participants \cup mine
             /\ Cardinality(mine) = 1
             /\ \A r \in mine : r.id = turn'.reply.pid /\ r.phone = local[c].phone
        ELSE store' = store
     /\ turn'.reply.kind \in {"phone_registered", "register_failed"} => mine = {}
     /\ scen = "race" => Cardinality(holders) = 1

C2_ExactlyOneWinner ==
  [][\A c \in Callers :
       (/\ pc[c] \in LastNameInFlight /\ pc'[c] = Idle
        /\ turn'.reply.kind # "store_unavailable") => C2_Returns(c)]_vars

\* the loser of the race: its INSERT was rejected, it holds no record, its
\* session is cleared and the winner's record holds the phone
C2_Witness ==
  /\ scen = "race"
  /\ turn.reply.kind = "register_failed"
  /\ fsm_state[turn.who] = NoState
  /\ ~HasRecord(turn.who)
  /\ Cardinality(participants) = 1

\* C3: a step that deletes a record or sets the number sequence back is the
\* confirmation step of an operator who is in the confirmation state, whose
\* session has had the right password accepted since it was last cleared,
\* and who now gives the affirmative answer.
C3_WipeOnlyAfterPasswordAndYes ==
  [][(participants \ participants' # {} \/ sqlite_sequence' < sqlite_sequence) =>
       LET c == turn'.who
       IN /\ is_admin(from_user_id(c))
          /\ pc[c] = Idle
          /\ fsm_state[c] = AdminFSM_reset_confirm
          /\ pw_ok[c]
          /\ RESET_PASSWORD # <<>>
          /\ Strip(message'.text) = <<BtnYesWipe>>
          /\ turn'.handler = "admin_reset_confirm"
          /\ turn'.reply.kind = "wiped"]_vars

\* the operator has just wiped the store
C3_Witness ==
  /\ turn.handler = "admin_reset_confirm"
  /\ turn.reply.kind = "wiped"
  /\ message.text = <<BtnYesWipe>>
  /\ is_admin(from_user_id(turn.who))
  /\ fsm_state[turn.who] = NoState /\ ~pw_ok[turn.who]

\* C4: while RESET_PASSWORD is empty no caller is in the password step or
\* in the confirmation step, the reset button of an operator is answered
\* with a refusal and leaves the operator in no step, and no step deletes a
\* record or sets the number sequence back.
C4_NoSecretState ==
  /\ \A c \in Callers :
       fsm_state[c] \notin {AdminFSM_reset_wait_password, AdminFSM_reset_confirm}
  /\ turn.reply.kind \notin {"ask_password", "wrong_password", "confirm_reset", "wiped"}
  /\ (message.text = <<BtnReset>> /\ is_admin(from_user_id(turn.who))) =>
       /\ turn.handler = "admin_menu_reset"
       /\ turn.reply.kind = "reset_password_not_set"
       /\ fsm_state[turn.who] = NoState

C4_EmptySecretDisablesWipe ==
  /\ [](RESET_PASSWORD = <<>> => C4_NoSecretState)
  /\ [][RESET_PASSWORD = <<>> =>
          participants \subseteq participants' /\ sqlite_sequence' >= sqlite_sequence]_vars

\* the operator pressed the reset button over a store that holds a record
C4_Witness ==
  /\ RESET_PASSWORD = <<>>
  /\ message.text = <<BtnReset>>
  /\ turn.reply.kind = "reset_password_not_set"
  /\ participants # {}

\* C5: the negative answer of an operator in the confirmation step leaves
\* the records and the number sequence as they were and clears the session:
\* no state, no data, no accepted password.
C5_CancelLeavesStore ==
  [][\A c \in Callers :
       (/\ Acts(c) /\ pc[c] = Idle
        /\ is_admin(from_user_id(c))
        /\ fsm_state[c] = AdminFSM_reset_confirm
        /\ message' # Continued
        /\ Strip(message'.text) = <<BtnCancel>>) =>
         /\ store' = store
         /\ fsm_state'[c] = NoState
         /\ fsm_data'[c] = EmptyData
         /\ ~pw_ok'[c]
         /\ turn'.reply.kind = "reset_cancelled"]_vars

\* cancelled over a store that holds a record
C5_Witness ==
  /\ turn.handler = "admin_reset_confirm"
  /\ turn.reply.kind = "reset_cancelled"
  /\ message.text = <<BtnCancel>>
  /\ participants # {}

\* C6: the numbers of the records are exactly 1..n for n records, and the
\* number sequence stands at n: every accepted INSERT got the greatest
\* number plus one and no rejected INSERT used a number up.
C6_NumbersAreOneToN ==
  /\ {r.id : r \in participants} = 1..Cardinality(participants)
  /\ sqlite_sequence = Cardinality(participants)

\* a second record got number 2
C6_Witness ==
  /\ turn.reply.kind = "registered"
  /\ turn.reply.pid = 2
  /\ {r.id : r \in participants} = {1, 2}

\* C7: a wipe is all or nothing.  No state shows an emptied table with the
\* number sequence not set back; the wiping step leaves no record and the
\* sequence at its start; the first INSERT into an empty table gets 1.
C7_WipeIsAtomic ==
  /\ [](participants = {} => sqlite_sequence = 0 /\ NextId(participants, sqlite_sequence) = 1)
  /\ [][/\ (participants \ participants' # {} \/ (now' = now /\ turn'.reply.kind = "wiped")) =>
             participants' = {} /\ sqlite_sequence' = 0
        /\ (participants = {} /\ participants' # {}) =>
             \A r \in participants' : r.id = 1]_vars

\* the store was wiped after it had rejected an INSERT that is still in
\* flight: a record was there, and nothing is left of it
C7_Witness ==
  /\ turn.reply.kind = "wiped"
  /\ \E c \in Callers : pc[c] = "on_last_name:requery"
  /\ participants = {}
  /\ sqlite_sequence = 0

\* C8: a step of a registration handler taken by a caller whose identity
\* holds a record adds no record and leaves the store as it was, never
\* answers "registered", and the number it reports as the caller's is the
\* number of that record.
RegistrationHandlers ==
  {"start", "on_user_start_button", "on_consent", "on_phone", "on_first_name", "on_last_name"}

C8_RegisteredCallerInsertsNothing ==
  [][\A c \in Callers :
       (Acts(c) /\ HasRecord(c) /\ turn'.handler \in RegistrationHandlers) =>
         /\ store' = store
         /\ turn'.reply.kind # "registered"
         /\ turn'.reply.kind = "already_registered" =>
              turn'.reply.pid = TheRow(get_by_telegram_id(from_user_id(c))).id]_vars

\* the last-name step of a user who registered from another chat meanwhile
C8_Witness ==
  /\ scen = "two_chats"
  /\ turn.handler = "on_last_name"
  /\ turn.reply.kind = "already_registered"
  /\ \E r \in participants :
       r.telegram_id = from_user_id(turn.who) /\ r.id = turn.reply.pid

\* C9: a caller who is no operator is never in an administrative state and
\* never has a list read in flight; no step of it answers with the menu, a
\* list, an export, a password prompt or a wipe, and none of its messages
\* reaches a handler of the menu buttons or of the administrative states;
\* its /admin, /list and /export reach their handlers, which deny and leave
\* its session and the store as they were.
AdminReplies ==
  {"admin_menu", "menu_closed", "list", "export", "export_empty", "range_error",
   "ask_password", "wrong_password", "confirm_reset", "reset_cancelled", "choose_confirm",
   "wiped", "reset_password_not_set"}

AdminCommandHandlers == {"cmd_admin", "cmd_list", "cmd_export"}

AdminOnlyHandlers ==
  {"admin_close_menu", "admin_menu_list", "admin_menu_export", "admin_menu_export_today",
   "admin_menu_reset", "admin_reset_password_step", "admin_reset_confirm",
   "admin_list_filter_step", "admin_list_range_collect", "admin_export_filter_step",
   "admin_export_range_collect"}

AdminCommand(text) ==
  IsCommand(text, "/admin") \/ IsCommand(text, "/list") \/ IsCommand(text, "/export")

C9_NonOperatorState ==
  /\ \A c \in Callers :
       ~is_admin(from_user_id(c)) =>
         fsm_state[c] \notin AdminStates /\ pc[c] # "send_list:fetch"
  /\ (turn.who \in Callers /\ ~is_admin(from_user_id(turn.who))) =>
       /\ turn.reply.kind \notin AdminReplies
       /\ turn.handler \notin AdminOnlyHandlers
       /\ turn.handler \in AdminCommandHandlers => turn.reply.kind = "admin_only"

C10_ResetClearsSession ==
  [][\A c \in Callers :
       (/\ Acts(c) /\ pc[c] = Idle
        /\ message' # Continued
        /\ IsCommand(message'.text, "/reset")) =>
         /\ turn'.handler = "cmd_reset"
         /\ fsm_state'[c] = NoState
         /\ fsm_data'[c] = EmptyData
         /\ ~pw_ok'[c]
         /\ store' = store]_vars

\* /reset has cleared an operator's session over a store that holds a record
C10_Witness ==
  /\ message.text = <<"/reset">>
  /\ turn.handler = "cmd_reset"
  /\ fsm_state[turn.who] = NoState /\ fsm_data[turn.who] = EmptyData
  /\ participants # {}


\* C11: a step that changes the store is the INSERT of on_last_name, which
\* adds one record with every column filled from the caller's session, or
\* the affirmed wipe of admin_reset_confirm, which leaves no record; no
\* other step changes the store, and no record ever lacks a column or has a
\* name the name steps would refuse.
RecordColumns ==
  {"id", "telegram_id", "phone", "first_name", "last_name", "consent", "created_at"}

C11_Complete(r) ==
  /\ DOMAIN r = RecordColumns
  /\ valid_name(r.first_name) /\ valid_name(r.last_name)
  /\ r.id >= 1

C11_IsInsert(c) ==
  /\ pc[c] = "on_last_name:insert"
  /\ fsm_state[c] = Reg_waiting_last_name
  /\ turn'.handler = "on_last_name" /\ turn'.reply.kind = "registered"
  /\ sqlite_sequence' = sqlite_sequence + 1
  /\ \E r \in participants' \ participants :
       /\ participants' = participants \cup {r}
       /\ C11_Complete(r)
       /\ r.telegram_id = from_user_id(c)
       /\ r.phone = fsm_data[c].phone
       /\ r.first_name = fsm_data[c].first_name
       /\ r.last_name = local[c].last_name

C11_IsWipe(c) ==
  /\ pc[c] = Idle
  /\ fsm_state[c] = AdminFSM_reset_confirm
  /\ turn'.handler = "admin_reset_confirm"
  /\ Strip(message'.text) = <<BtnYesWipe>>
  /\ participants' = {} /\ sqlite_sequence' = 0

C11_StoreChangesInTwoTransitions ==
  /\ [](\A r \in participants : C11_Complete(r))
  /\ [][store' # store => C11_IsInsert(turn'.who) \/ C11_IsWipe(turn'.who)]_vars

\* a record was added while the INSERT of another caller is in flight
C11_Witness ==
  /\ turn.reply.kind = "registered"
  /\ turn.reply.pid = 1
  /\ \E c \in Callers : pc[c] = "on_last_name:insert"

\* C12: every record has consent 1; a caller in the phone, first-name or
\* last-name step has consent 1 in its session data, and so has every
\* INSERT in flight, whatever restarts and administrative flows came before.
C12_ConsentRecorded ==
  /\ \A r \in participants : r.consent = 1
  /\ \A c \in Callers :
       /\ fsm_state[c] \in {Reg_waiting_phone, Reg_waiting_first_name, Reg_waiting_last_name} =>
            "consent" \in DOMAIN fsm_data[c] /\ fsm_data[c].consent = 1
       /\ pc[c] \in LastNameInFlight => local[c].consent = 1

\* an operator, who can leave for the administrative flows and come back,
\* has registered
C12_Witness ==
  /\ turn.reply.kind = "registered"
  /\ is_admin(from_user_id(turn.who))
  /\ \E r \in participants : r.telegram_id = from_user_id(turn.who) /\ r.consent = 1


\* C13: when on_phone looks the phone up and a record of another identity
\* holds it, the caller is answered with the number, first name and last
\* name of that record, its session is cleared (no state, no data: the
\* phone is not stored) and the store is as it was.  The phone looked up is
\* the normalised phone_number of the contact.
C13_Holders(c) ==
  {r \in participants : r.phone = local[c].phone /\ r.telegram_id # from_user_id(c)}

C13_PhoneOfAnotherIsRejected ==
  [][\A c \in Callers :
       /\ (/\ pc[c] = "on_phone:get_by_phone" /\ pc'[c] = Idle /\ C13_Holders(c) # {}
           /\ turn'.reply.kind # "store_unavailable") =>
            /\ turn'.who = c
            /\ turn'.reply.kind = "phone_taken"
            /\ \E r \in C13_Holders(c) :
                 /\ turn'.reply.pid = r.id
                 /\ turn'.reply.first_name = r.first_name
                 /\ turn'.reply.last_name = r.last_name
            /\ fsm_state'[c] = NoState
            /\ fsm_data'[c] = EmptyData
            /\ store' = store
       /\ (pc[c] = Idle /\ pc'[c] = "on_phone:get_by_phone") =>
            /\ message'.contact # NoContact
            /\ local'[c].phone = normalize_phone(TheRow(message'.contact).phone_number)]_vars

\* a caller was told whose phone it sent
C13_Witness ==
  /\ turn.handler = "on_phone"
  /\ turn.reply.kind = "phone_taken"
  /\ fsm_state[turn.who] = NoState /\ fsm_data[turn.who] = EmptyData
  /\ \E r \in participants :
       r.id = turn.reply.pid /\ r.telegram_id # from_user_id(turn.who)

\* C14: on_phone goes on to its look-ups, and so to storing the phone and
\* to the first-name step, only with a contact whose user_id is the
\* caller's own; with every other contact the caller stays in the phone
\* step with its data as they were, and the store is as it was.
C14_OnlyOwnContactAdvances ==
  [][\A c \in Callers :
       (/\ Acts(c) /\ pc[c] = Idle
        /\ fsm_state[c] = Reg_waiting_phone
        /\ turn'.handler = "on_phone"
        /\ message' # Continued
        /\ message'.contact # NoContact
        /\ TheRow(message'.contact).user_id # from_user_id(c)) =>
         /\ pc'[c] = Idle
         /\ fsm_state'[c] = Reg_waiting_phone
         /\ fsm_data'[c] = fsm_data[c]
         /\ store' = store]_vars


\* C15: when on_last_name re-queries after a rejected INSERT, the store is
\* as it was and the session is cleared, and the answer fits the store as
\* it is then: "already registered" with the stored number exactly when a
\* record of the caller's identity exists, "taken" exactly when a record of
\* another identity holds the phone.
C15_AnswerMatchesStore ==
  [][\A c \in Callers :
       (/\ pc[c] = "on_last_name:requery" /\ pc'[c] = Idle
        /\ turn'.reply.kind # "store_unavailable") =>
         /\ store' = store
         /\ fsm_state'[c] = NoState /\ fsm_data'[c] = EmptyData
         /\ turn'.reply.kind = "already_registered" <=> HasRecord(c)
         /\ turn'.reply.kind = "already_registered" =>
              turn'.reply.pid = TheRow(get_by_telegram_id(from_user_id(c))).id
         /\ turn'.reply.kind = "register_failed" <=> C13_Holders(c) # {}]_vars

\* C16: count_participants and fetch_participants select the same records,
\* those created at or after `from` and before `to`, a bound left out not
\* bounding; fetch_participants gives them by ascending id; without bounds
\* they are all records, and with the bounds of day_range_utc(D) exactly
\* the records created on day D.
C16_Bounds == {NoIso} \cup {IsoMidnight(d) : d \in 0..((MaxNow \div TicksPerDay) + 1)}

C16_Instant(iso) == iso[1] * TicksPerDay + iso[2]

C16_Selected(from_iso, to_iso) ==
  {r \in participants :
     /\ from_iso = NoIso \/ C16_Instant(from_iso) <= C16_Instant(r.created_at)
     /\ to_iso = NoIso \/ C16_Instant(r.created_at) < C16_Instant(to_iso)}

C16_RangeQueriesAgree ==
  /\ \A f, t \in C16_Bounds :
       LET rows == fetch_participants(f, t)
       IN /\ count_participants(f, t) = Len(rows)
          /\ {rows[i] : i \in 1..Len(rows)} = C16_Selected(f, t)
          /\ Len(rows) = Cardinality(C16_Selected(f, t))
          /\ \A i, j \in 1..Len(rows) : i < j => rows[i].id < rows[j].id
  /\ {r.id : r \in participants} = {fetch_participants(NoIso, NoIso)[i].id :
                                      i \in 1..count_participants(NoIso, NoIso)}
  /\ \A d \in 0..(MaxNow \div TicksPerDay) :
       LET rg == day_range_utc(d)
           rows == fetch_participants(rg[1], rg[2])
       IN /\ {rows[i] : i \in 1..Len(rows)} = {r \in participants : r.created_at[1] = d}
          /\ count_participants(rg[1], rg[2]) =
               Cardinality({r \in participants : r.created_at[1] = d})

\* the list of today shows one of two records: the other is of the day
\* before, and today's was created at midnight
C16_Witness ==
  /\ turn.reply.kind = "list"
  /\ turn.reply.label = <<"today">>
  /\ turn.reply.cnt = 1 /\ Len(turn.reply.lines) = 1
  /\ \E r, q \in participants :
       /\ r.created_at[1] + 1 = q.created_at[1]
       /\ q.created_at = IsoMidnight(now \div TicksPerDay)
       /\ turn.reply.lines[1] = q.id


\* C17: a turn in which a store call raises ends there, and the caller's
\* state and data are what they were before the turn.
C17_UnavailableKeepsSession ==
  [][\A c \in Callers :
       (Acts(c) /\ turn'.reply.kind = "store_unavailable") =>
         /\ pc'[c] = Idle
         /\ fsm_state'[c] = fsm_state[c]
         /\ fsm_data'[c] = fsm_data[c]
         /\ store' = store]_vars


\* C18 as stated: in the first-name step every text of trimmed length
\* within 2..50 is stored as first_name and moves the caller to the
\* last-name step, and every other text leaves state and data as they were.
C18_TextAtFirstName(c) ==
  /\ Acts(c) /\ pc[c] = Idle
  /\ fsm_state[c] = Reg_waiting_first_name
  /\ message' # Continued
  /\ message'.contact = NoContact

C18_Outcome(c) ==
  LET t == Strip(message'.text)
  IN IF TextLen(t) >= 2 /\ TextLen(t) <= 50
     THEN /\ fsm_state'[c] = Reg_waiting_last_name
          /\ fsm_data'[c] = UpdateData(fsm_data[c], [first_name |-> t])
     ELSE /\ fsm_state'[c] = Reg_waiting_first_name
          /\ fsm_data'[c] = fsm_data[c]

C18_EveryTextIsAName ==
  [][\A c \in Callers : C18_TextAtFirstName(c) => C18_Outcome(c)]_vars

\* C18, amended: the same for every text that is no command, not the start
\* button and, from an operator, no button of the admin menu; such a text
\* reaches on_first_name, and the store is as it was.
C18_Reserved(c, text) ==
  \/ \E w \in {"/start", "/my", "/reset", "/admin", "/list", "/export"} : IsCommand(text, w)
  \/ text = <<BtnStart>>
  \/ is_admin(from_user_id(c)) /\ text \in AdminButtonTexts

C18_FirstNameByLength ==
  [][\A c \in Callers :
       (C18_TextAtFirstName(c) /\ ~C18_Reserved(c, message'.text)) =>
         /\ turn'.handler = "on_first_name"
         /\ C18_Outcome(c)
         /\ store' = store]_vars

\* a first name of 50 characters was taken
C18_Witness ==
  /\ turn.handler = "on_first_name"
  /\ fsm_state[turn.who] = Reg_waiting_last_name
  /\ TextLen(fsm_data[turn.who].first_name) = 50
  /\ TextLen(message.text) = 50


\* C19 as stated: in the confirmation step every input but the affirmative
\* and the negative answer leaves the operator in the confirmation step and
\* the store as it was.
C19_OtherInputAtConfirm(c) ==
  /\ Acts(c) /\ pc[c] = Idle
  /\ is_admin(from_user_id(c))
  /\ fsm_state[c] = AdminFSM_reset_confirm
  /\ message' # Continued
  /\ Strip(message'.text) \notin {<<BtnYesWipe>>, <<BtnCancel>>}

C19_EveryOtherInputStays ==
  [][\A c \in Callers :
       C19_OtherInputAtConfirm(c) =>
         /\ fsm_state'[c] = AdminFSM_reset_confirm
         /\ store' = store]_vars

\* C19, amended: the same for every input that is no command, not the start
\* button and no button of the admin menu; such an input reaches
\* admin_reset_confirm, which asks again and keeps state, data and the
\* accepted password.
C19_OtherInputAsksAgain ==
  [][\A c \in Callers :
       (C19_OtherInputAtConfirm(c) /\ ~C18_Reserved(c, message'.text)) =>
         /\ turn'.handler = "admin_reset_confirm"
         /\ turn'.reply.kind = "choose_confirm"
         /\ fsm_state'[c] = AdminFSM_reset_confirm
         /\ fsm_data'[c] = fsm_data[c]
         /\ pw_ok'[c] = pw_ok[c]
         /\ store' = store]_vars

\* the operator was asked again over a store that holds a record
C19_Witness ==
  /\ turn.handler = "admin_reset_confirm"
  /\ turn.reply.kind = "choose_confirm"
  /\ fsm_state[turn.who] = AdminFSM_reset_confirm
  /\ Strip(message.text) \notin {<<BtnYesWipe>>, <<BtnCancel>>, <<BtnBack>>}
  /\ participants # {}

\* C20 as stated: in every administrative state Back clears the operator's
\* session, answers with the admin menu and leaves the store as it was.
C20_BackIn(c, states) ==
  /\ Acts(c) /\ pc[c] = Idle
  /\ is_admin(from_user_id(c))
  /\ fsm_state[c] \in states
  /\ message' # Continued
  /\ Strip(message'.text) = <<BtnBack>>

C20_Cleared(c) ==
  /\ fsm_state'[c] = NoState
  /\ fsm_data'[c] = EmptyData
  /\ turn'.reply.kind = "admin_menu"
  /\ store' = store

C20_BackClearsEverywhere ==
  [][\A c \in Callers : C20_BackIn(c, AdminStates) => C20_Cleared(c)]_vars

\* C20, amended: so it is in the filter and range steps of list and export
\* and in the password step; in the confirmation step Back is one more
\* input that is neither answer: the operator is asked again and stays.
C20_BackClearsButAtConfirm ==
  [][\A c \in Callers :
       /\ C20_BackIn(c, AdminStates \ {AdminFSM_reset_confirm}) => C20_Cleared(c)
       /\ C20_BackIn(c, {AdminFSM_reset_confirm}) =>
            /\ fsm_state'[c] = AdminFSM_reset_confirm
            /\ fsm_data'[c] = fsm_data[c]
            /\ turn'.reply.kind = "choose_confirm"
            /\ store' = store]_vars

\* Back in the password step, over a store that holds a record
C20_Witness ==
  /\ turn.handler = "admin_reset_password_step"
  /\ turn.reply.kind = "admin_menu"
  /\ Strip(message.text) = <<BtnBack>>
  /\ fsm_state[turn.who] = NoState
  /\ participants # {}


\* C21 as stated: in the filter-choice steps and the range-entry steps of
\* List and Export, an input that is no recognised choice (today, all,
\* range entry, back) and does not parse as the date(s) the step expects,
\* an input with no text included, asks again: state and data stay, and no
\* list or export is made.
C21_FilterSteps == {AdminFSM_list_wait_from, AdminFSM_export_wait_from}

C21_RangeSteps == {AdminFSM_list_wait_to, AdminFSM_export_wait_to}

C21_StepHandlers ==
  {"admin_list_filter_step", "admin_export_filter_step",
   "admin_list_range_collect", "admin_export_range_collect"}

C21_Choice(text) ==
  \/ Strip(text) \in {<<BtnToday>>, <<BtnAll>>, <<BtnRange>>, <<BtnBack>>}
  \/ Lower(Strip(text)) = <<"today">>

C21_ParsesAt(st, text) ==
  IF st \in C21_FilterSteps
  THEN LET parts == Split(text)
       IN Len(parts) = 2 /\ parse_ymd(parts[1]) # NoDate /\ parse_ymd(parts[2]) # NoDate
  ELSE parse_ymd(text) # NoDate

C21_Malformed(c) ==
  /\ Acts(c) /\ pc[c] = Idle
  /\ fsm_state[c] \in C21_FilterSteps \cup C21_RangeSteps
  /\ turn'.handler \in C21_StepHandlers
  /\ turn'.reply.kind # "store_unavailable"
  /\ ~C21_Choice(message'.text)
  /\ ~C21_ParsesAt(fsm_state[c], message'.text)

C21_AsksAgain(c) ==
  /\ fsm_state'[c] = fsm_state[c]
  /\ fsm_data'[c] = fsm_data[c]
  /\ pc'[c] = Idle
  /\ turn'.reply.kind \in {"filter_not_understood", "bad_date_from", "bad_date_to"}

C21_MalformedInputAsksAgain ==
  [][\A c \in Callers : C21_Malformed(c) => C21_AsksAgain(c)]_vars


\* C22 as stated: one List answer describes one state of the store, also
\* when registrations or a wipe of other callers come between its two reads:
\* the total is the number of records in the range, the preview shows the
\* first min(30, total) of them in ascending number (nothing when the total
\* is 0), and "and N more" is there exactly when total > 30, N = total - 30.
\* The preview is read last, so the one state can only be the store the
\* answer is sent from.
C22_Min(a, b) == IF a < b THEN a ELSE b

C22_ListIsOneSnapshot ==
  [][\A c \in Callers :
       (Acts(c) /\ turn'.reply.kind = "list") =>
         LET rows == fetch_participants(local[c].from_iso, local[c].to_iso)
             total == Len(rows)
             rp == turn'.reply
         IN /\ rp.cnt = total
            /\ rp.lines = Ids(SubSeq(rows, 1, C22_Min(PreviewCap, total)))
            /\ \A i, j \in 1..Len(rp.lines) : i < j => rp.lines[i] < rp.lines[j]
            /\ rp.more = (IF total > PreviewCap THEN total - PreviewCap ELSE 0)]_vars


\* C23 as stated: when a caller leaves one top-level flow for another (a
\* registration in progress for an admin flow, one admin flow for another,
\* or the start button that begins registration again), the fields the
\* abandoned flow collected are no longer in the caller's data.
C23_Flow(st) ==
  CASE st \in RegStates -> "registration"
    [] st \in {AdminFSM_list_wait_from, AdminFSM_list_wait_to} -> "list"
    [] st \in {AdminFSM_export_wait_from, AdminFSM_export_wait_to} -> "export"
    [] st \in {AdminFSM_reset_wait_password, AdminFSM_reset_confirm} -> "reset"
    [] OTHER -> "none"

C23_Fields(flow) ==
  CASE flow = "registration" -> {"consent", "phone", "first_name"}
    [] flow = "list" -> {"list_step", "list_from"}
    [] flow = "export" -> {"export_step", "export_from"}
    [] OTHER -> {}

C23_Handoff(c) ==
  /\ Acts(c) /\ pc[c] = Idle
  /\ C23_Flow(fsm_state[c]) # "none" /\ C23_Flow(fsm_state'[c]) # "none"
  /\ \/ C23_Flow(fsm_state'[c]) # C23_Flow(fsm_state[c])
     \/ turn'.handler = "on_user_start_button"

C23_HandoffClearsFields ==
  [][\A c \in Callers :
       C23_Handoff(c) =>
         DOMAIN fsm_data'[c] \cap C23_Fields(C23_Flow(fsm_state[c])) = {}]_vars


\* C24: a caller in the last-name step has consent, phone and first_name in
\* its data, whatever came before (restarts, admin flows whose fields stay);
\* on_last_name never misses a field; and the record the insert creates has
\* the phone and first name of the caller's latest phone and first-name
\* steps: the last-name step is entered by on_first_name only, which stores
\* the name of its message and keeps the phone; the first-name step is
\* entered by on_phone only, which stores the normalised number of its
\* contact; no step that stays in these states changes the two fields; and
\* the new record is made of the data of the caller who inserts.
C24_FieldsPresent ==
  \A c \in Callers :
    /\ fsm_state[c] = Reg_waiting_last_name =>
         {"consent", "phone", "first_name"} \subseteq DOMAIN fsm_data[c]
    /\ fsm_state[c] = Reg_waiting_first_name =>
         {"consent", "phone"} \subseteq DOMAIN fsm_data[c]
    /\ ~(turn.handler = "on_last_name" /\ turn.reply.kind = "KeyError")

C24_Enters(c, st) == fsm_state'[c] = st /\ fsm_state[c] # st

C24_Stays(c, st) == fsm_state'[c] = st /\ fsm_state[c] = st

C24_LatestCaptures(c) ==
  /\ C24_Enters(c, Reg_waiting_last_name) =>
       /\ Acts(c) /\ turn'.handler = "on_first_name"
       /\ fsm_state[c] = Reg_waiting_first_name
       /\ fsm_data'[c].first_name = Strip(message'.text)
       /\ fsm_data'[c].phone = fsm_data[c].phone
  /\ C24_Enters(c, Reg_waiting_first_name) =>
       /\ Acts(c) /\ turn'.handler = "on_phone"
       /\ pc[c] = "on_phone:get_by_phone"
       /\ fsm_data'[c].phone = local[c].phone
  /\ (Acts(c) /\ pc[c] = Idle /\ pc'[c] = "on_phone:get_by_phone") =>
       local'[c].phone = normalize_phone(TheRow(message'.contact).phone_number)
  /\ C24_Stays(c, Reg_waiting_last_name) =>
       /\ fsm_data'[c].phone = fsm_data[c].phone
       /\ fsm_data'[c].first_name = fsm_data[c].first_name
  /\ C24_Stays(c, Reg_waiting_first_name) =>
       fsm_data'[c].phone = fsm_data[c].phone
  /\ (Acts(c) /\ participants' # participants /\ participants' # {}) =>
       /\ fsm_state[c] = Reg_waiting_last_name
       /\ \E r \in participants' :
            /\ participants' = participants \cup {r} /\ r \notin participants
            /\ r.telegram_id = from_user_id(c)
            /\ r.phone = fsm_data[c].phone
            /\ r.first_name = fsm_data[c].first_name

C24_LastNameStepHasItsFields ==
  /\ []C24_FieldsPresent
  /\ [][\A c \in Callers : C24_LatestCaptures(c)]_vars

\* C24 witness: the operator began a list range, then registered: its
\* insert is about to run on data that still holds the field of the list
\* flow, with the phone and first name of the registration.
C24_Witness ==
  \E c \in Callers :
    /\ pc[c] = "on_last_name:insert"
    /\ fsm_state[c] = Reg_waiting_last_name
    /\ "list_step" \in DOMAIN fsm_data[c]
    /\ local[c].phone = fsm_data[c].phone
    /\ local[c].first_name = fsm_data[c].first_name


\* C25 as stated: with the events of one caller handled one after the
\* other, a caller whose identity has a record is in no registration step
\* (consent, phone, first name, last name) between turns.  A caller is a
\* chat here, its identity the user who writes in it; between turns no
\* handler of the chat is in flight.
C25_BetweenTurns(c) == pc[c] = Idle

C25_RegisteredIsOutOfRegistration ==
  \A c \in Callers :
    (C25_BetweenTurns(c) /\ HasRecord(c)) => fsm_state[c] \notin RegStates


\* C26: the start button is matched before the state handlers: in every
\* session state, the first-name and last-name steps and the password and
\* confirmation steps of the reset included, the start button of a caller
\* without a record is handled by on_user_start_button and moves the session
\* to the consent step; it is not taken as the input of the step (data and
\* store stay as they are), unless the store read raises.
C26_StartButton(c) ==
  /\ Acts(c) /\ pc[c] = Idle
  /\ message'.text = <<BtnStart>>
  /\ ~HasRecord(c)
  /\ turn'.reply.kind # "store_unavailable"

C26_StartButtonBeginsConsent ==
  [][\A c \in Callers :
       C26_StartButton(c) =>
         /\ turn'.handler = "on_user_start_button"
         /\ fsm_state'[c] = Reg_waiting_consent
         /\ fsm_data'[c] = fsm_data[c]
         /\ pc'[c] = Idle
         /\ store' = store]_vars

\* C26 witness: the start button has just taken to the consent step an
\* operator who had reached the last-name step and then the confirmation
\* step of the reset: the first name is in the data, the password was
\* accepted and the session was not cleared since.
C26_Witness ==
  \E c \in Callers :
    /\ turn.who = c /\ turn.handler = "on_user_start_button"
    /\ turn.reply.kind = "ask_consent"
    /\ message.text = <<BtnStart>>
    /\ fsm_state[c] = Reg_waiting_consent
    /\ "first_name" \in DOMAIN fsm_data[c]
    /\ pw_ok[c]

====
